---------------------------- MODULE Spec2Model ----------------------------
(***************************************************************************)
(* State-machine model of swak.js: the EnhancedLLM Markov-chain text       *)
(* generator (constructor, train, generate, getStats).                     *)
(*                                                                         *)
(* JavaScript strings are sequences of one-character strings.  A Map or a  *)
(* Set is a sequence in insertion order, which is its enumeration order.   *)
(* A JavaScript value is a record [type, v]: v is the character sequence   *)
(* of a string, the truth value of a boolean, and 10000 times the value of *)
(* a number (so 3 is v = 30000, 1.5 is v = 15000 and 0.0005 is v = 5).     *)
(* Math.random() returns k / RandomDen for a k in 0 .. RandomDen - 1.  A   *)
(* double computed by selectNextToken is a record [class, n]: a finite     *)
(* value n, Infinity or NaN.                                               *)
(***************************************************************************)
EXTENDS Integers, Sequences, FiniteSets, TLC

\* ------------------------------------------------------------ bounds ----
MaxOrder == 2
MaxTextLen == 3
MaxTrains == 2
MaxGenLen == 3
RandomDen == 7

\* ------------------------------------------------- JavaScript values ----
Undefined == [type |-> "undefined", v |-> 0]
Null == [type |-> "null", v |-> 0]
Str(chars) == [type |-> "string", v |-> chars]
Bool(b) == [type |-> "boolean", v |-> b]
Num(n) == [type |-> "number", v |-> 10000 * n]
Half(h) == [type |-> "number", v |-> 5000 * h]
TenThousandths(k) == [type |-> "number", v |-> k]

\* Number.isInteger(x)
IsInteger(x) == x.type = "number" /\ x.v % 10000 = 0

\* a destructuring default: `name = dflt` takes dflt when the field is undefined
Default(x, dflt) == IF x.type = "undefined" THEN dflt ELSE x

NoError == [name |-> "none", message |-> "none"]
ValidationError(message) == [name |-> "ValidationError", message |-> message]

\* -------------------------------------------------- string primitives ----
\* \s of the regular expressions, restricted to the characters modelled
Whitespace == {" ", "\t", "\n"}
IsSpace(c) == c \in Whitespace
\* [.!?]
IsPunct(c) == c \in {".", "!", "?"}

Min(a, b) == IF a < b THEN a ELSE b
Max(a, b) == IF a > b THEN a ELSE b

UpperChars == <<"A","B","C","D","E","F","G","H","I","J","K","L","M",
                "N","O","P","Q","R","S","T","U","V","W","X","Y","Z">>
LowerChars == <<"a","b","c","d","e","f","g","h","i","j","k","l","m",
                "n","o","p","q","r","s","t","u","v","w","x","y","z">>

LowerChar(c) ==
  IF \E i \in 1..26 : UpperChars[i] = c
  THEN LowerChars[CHOOSE i \in 1..26 : UpperChars[i] = c]
  ELSE c

\* toLowerCase leaving every character as it is
toLowerCaseUnchanged(s) == s

\* String.prototype.toLowerCase
toLowerCase(s) == [i \in 1..Len(s) |-> LowerChar(s[i])]

\* String.prototype.trim
RECURSIVE trimLeft(_)
trimLeft(s) ==
  IF s # <<>> /\ IsSpace(Head(s)) THEN trimLeft(Tail(s)) ELSE s

RECURSIVE trimRight(_)
trimRight(s) ==
  IF s # <<>> /\ IsSpace(s[Len(s)])
  THEN trimRight(SubSeq(s, 1, Len(s) - 1))
  ELSE s

trim(s) == trimRight(trimLeft(s))

\* the concatenation of pieces[lo], ..., pieces[hi]
RECURSIVE concatRange(_, _, _)
concatRange(pieces, lo, hi) ==
  IF lo > hi THEN <<>>
  ELSE IF lo = hi THEN pieces[lo]
  ELSE concatRange(pieces, lo, (lo + hi) \div 2)
       \o concatRange(pieces, ((lo + hi) \div 2) + 1, hi)

concat(pieces) == concatRange(pieces, 1, Len(pieces))

\* .replace(/\s+/g, ' '): every maximal run of whitespace becomes one
\* space; the first character of a run yields the space, the rest nothing
collapseWhitespace(s) ==
  concat([i \in 1..Len(s) |->
            IF ~IsSpace(s[i]) THEN <<s[i]>>
            ELSE IF i > 1 /\ IsSpace(s[i - 1]) THEN <<>>
            ELSE <<" ">>])

\* s[i] lies in the run of whitespace right after a punctuation mark
RECURSIVE followsPunct(_, _)
followsPunct(s, i) ==
  /\ i > 1
  /\ \/ IsPunct(s[i - 1])
     \/ IsSpace(s[i - 1]) /\ followsPunct(s, i - 1)

\* .replace(/([.!?])\s*/g, ' $1 '): a punctuation mark and the whitespace
\* after it become the mark with one space on each side
spacePunctuation(s) ==
  concat([i \in 1..Len(s) |->
            IF IsPunct(s[i]) THEN <<" ", s[i], " ">>
            ELSE IF IsSpace(s[i]) /\ followsPunct(s, i) THEN <<>>
            ELSE <<s[i]>>])

\* the index of the last character of the field that starts at p: the
\* one before the next separator (p - 1 for an empty field)
RECURSIVE fieldEnd(_, _, _)
fieldEnd(s, p, separators) ==
  IF p > Len(s) \/ s[p] \in separators
  THEN p - 1
  ELSE fieldEnd(s, p + 1, separators)

\* .split(/\s+/): the fields between maximal runs of whitespace; a leading
\* or trailing run leaves an empty field, and "" splits to [""].  A field
\* starts at 1 and after the last character of every run.
splitWhitespace(s) ==
  concat([p \in 1..(Len(s) + 1) |->
            IF \/ p = 1
               \/ IsSpace(s[p - 1]) /\ (p = Len(s) + 1 \/ ~IsSpace(s[p]))
            THEN <<SubSeq(s, p, fieldEnd(s, p, Whitespace))>>
            ELSE <<>>])

\* .split(' '): every single space separates two fields
splitSpace(s) ==
  concat([p \in 1..(Len(s) + 1) |->
            IF p = 1 \/ s[p - 1] = " "
            THEN <<SubSeq(s, p, fieldEnd(s, p, {" "}))>>
            ELSE <<>>])

\* Array.prototype.join(' ')
join(tokens) ==
  concat([i \in 1..Len(tokens) |->
            IF i = 1 THEN tokens[i] ELSE <<" ">> \o tokens[i]])

\* Array.prototype.slice(start, end) for 0 <= start, 0-based, end exclusive
slice(arr, start, end) == SubSeq(arr, start + 1, Min(end, Len(arr)))

\* Array.prototype.slice(-n) for n >= 1: the last n elements
sliceLast(arr, n) == SubSeq(arr, Max(1, Len(arr) - n + 1), Len(arr))

\* endsSentence asking for a word before the mark, as /\w[.!?]$/ would
endsSentenceAfterWord(token) ==
  Len(token) > 1 /\ IsPunct(token[Len(token)])

\* token.match(/[.!?]$/): the token ends in sentence punctuation
endsSentence(token) == token # <<>> /\ IsPunct(token[Len(token)])

\* ------------------------------------------------- Map / Set helpers ----
\* Map.prototype.has / Set.prototype.has on an insertion-ordered sequence
mapHas(m, k) == \E i \in 1..Len(m) : m[i].key = k
mapIndex(m, k) == CHOOSE i \in 1..Len(m) : m[i].key = k
\* Map.prototype.get (defined when mapHas)
mapGet(m, k) == m[mapIndex(m, k)].value
\* Map.prototype.set: an existing key keeps its position, a new one is last
mapSet(m, k, val) ==
  IF mapHas(m, k)
  THEN [m EXCEPT ![mapIndex(m, k)] = [key |-> k, value |-> val]]
  ELSE Append(m, [key |-> k, value |-> val])
mapKeys(m) == {m[i].key : i \in 1..Len(m)}

setHas(s, e) == \E i \in 1..Len(s) : s[i] = e
\* Set.prototype.add
setAdd(s, e) == IF setHas(s, e) THEN s ELSE Append(s, e)
setElems(s) == {s[i] : i \in 1..Len(s)}

\* "This is a test."  (runTests, line 290)
ThisIsATest ==
  <<"T","h","i","s"," ","i","s"," ","a"," ","t","e","s","t",".">>

\* the training text of the usage example (line 339)
FoxText ==
  <<"T","h","e"," ","q","u","i","c","k"," ","b","r","o","w","n"," ","f","o",
    "x"," ","j","u","m","p","s"," ","o","v","e","r"," ","t","h","e"," ","l",
    "a","z","y"," ","d","o","g","."," ","T","h","e"," ","d","o","g"," ","b",
    "a","r","k","s"," ","a","t"," ","t","h","e"," ","f","o","x","."," ","T",
    "h","e"," ","f","o","x"," ","r","u","n","s"," ","a","w","a","y"," ","q",
    "u","i","c","k","l","y",".">>
\* ------------------------------------------------------- EnhancedLLM ----
\* validateOrder: the error thrown for an order argument, NoError if none
validateOrder(order) ==
  IF ~IsInteger(order) \/ order.v < 10000 * 1 \/ order.v > 10000 * 5
  THEN ValidationError("Order must be an integer between 1 and 5")
  ELSE NoError

\* constructor, after validateOrder passed; order is kept as an integer
EnhancedLLM(order) ==
  [order |-> order.v \div 10000,
   wordTransitions |-> <<>>,
   startSequences |-> <<>>,
   endSequences |-> <<>>,
   totalTokens |-> 0]

\* the chain of replace / trim / split of preprocessText
tokenize(chars) ==
  splitWhitespace(trim(spacePunctuation(collapseWhitespace(chars))))

\* `Input text must contain at least ${this.order + 1} tokens`
atLeastMessage ==
  <<"Input text must contain at least 1 tokens",
    "Input text must contain at least 2 tokens",
    "Input text must contain at least 3 tokens",
    "Input text must contain at least 4 tokens",
    "Input text must contain at least 5 tokens",
    "Input text must contain at least 6 tokens">>

\* preprocessText: the error thrown, or the tokens returned
preprocessText(this, text) ==
  IF text.type # "string"
  THEN [thrown |-> ValidationError("Input text must be a string"),
        tokens |-> <<>>]
  ELSE IF trim(text.v) = <<>>
  THEN [thrown |-> ValidationError("Input text cannot be empty"),
        tokens |-> <<>>]
  ELSE IF Len(tokenize(text.v)) < this.order + 1
  THEN [thrown |-> ValidationError(atLeastMessage[this.order + 1]),
        tokens |-> <<>>]
  ELSE [thrown |-> NoError, tokens |-> tokenize(text.v)]

\* getNGram: startIndex is 0-based
getNGram(this, tokens, startIndex) ==
  join(slice(tokens, startIndex, startIndex + this.order))

\* validateOptions: the error thrown for an options object, NoError if none
validateOptions(options) ==
  LET minLength == Default(options.minLength, Num(10))
      maxLength == Default(options.maxLength, Num(50))
      temperature == Default(options.temperature, Num(1))
      endOnSentence == Default(options.endOnSentence, Bool(TRUE))
  IN IF ~IsInteger(minLength) \/ minLength.v < 10000 * 1
     THEN ValidationError("minLength must be a positive integer")
     ELSE IF ~IsInteger(maxLength) \/ maxLength.v < minLength.v
     THEN ValidationError("maxLength must be >= minLength")
     ELSE IF temperature.type # "number" \/ temperature.v <= 0
     THEN ValidationError("temperature must be a positive number")
     ELSE IF endOnSentence.type # "boolean"
     THEN ValidationError("endOnSentence must be a boolean")
     ELSE NoError

\* countTransition storing 0 for a successor it sees for the first time
countTransitionFromZero(transitions, nextToken) ==
  mapSet(transitions, nextToken,
         IF mapHas(transitions, nextToken)
         THEN mapGet(transitions, nextToken) + 1 ELSE 0)

\* countTransition storing 1 instead of adding 1 to the count
countTransitionOnce(transitions, nextToken) ==
  mapSet(transitions, nextToken, 1)

\* lines 151-152: transitions.set(nextToken, (transitions.get(nextToken) || 0) + 1)
countTransition(transitions, nextToken) ==
  mapSet(transitions, nextToken,
         (IF mapHas(transitions, nextToken)
          THEN mapGet(transitions, nextToken) ELSE 0) + 1)

\* the body of the for loop of train, for index i (0-based)
trainStep(this, tokens, i) ==
  LET currentGram == getNGram(this, tokens, i)
      nextToken == tokens[i + this.order + 1]
      ends == IF endsSentence(nextToken)
              THEN setAdd(this.endSequences, currentGram)
              ELSE this.endSequences
      created == IF ~mapHas(this.wordTransitions, currentGram)
                 THEN mapSet(this.wordTransitions, currentGram, <<>>)
                 ELSE this.wordTransitions
      transitions == mapGet(created, currentGram)
  IN [this EXCEPT
        !.endSequences = ends,
        !.wordTransitions =
            mapSet(created, currentGram,
                   countTransition(transitions, nextToken))]

\* the for loop of train from index i on
RECURSIVE trainLoop(_, _, _)
trainLoop(this, tokens, i) ==
  IF i < Len(tokens) - this.order
  THEN trainLoop(trainStep(this, tokens, i), tokens, i + 1)
  ELSE this

\* trainHead storing the n-gram at index 1 as the start key
trainHeadSecond(this, tokens) ==
  [this EXCEPT
     !.totalTokens = this.totalTokens + Len(tokens),
     !.startSequences = setAdd(this.startSequences, getNGram(this, tokens, 1))]

\* trainHead replacing the start keys by the new one instead of adding it
trainHeadReplacing(this, tokens) ==
  [this EXCEPT
     !.totalTokens = this.totalTokens + Len(tokens),
     !.startSequences = <<getNGram(this, tokens, 0)>>]

\* lines 132-135: the updates of train before its loop
trainHead(this, tokens) ==
  [this EXCEPT
     !.totalTokens = this.totalTokens + Len(tokens),
     !.startSequences = setAdd(this.startSequences, getNGram(this, tokens, 0))]

\* train counting the tokens of its text before the text is validated
trainCountingFirst(this, text) ==
  LET pre == preprocessText(this, text)
      counted == IF text.type = "string"
                 THEN [this EXCEPT !.totalTokens =
                                     this.totalTokens + Len(tokenize(text.v))]
                 ELSE this
  IN IF pre.thrown # NoError
     THEN [thrown |-> pre.thrown, this |-> counted]
     ELSE [thrown |-> NoError,
           this |-> trainLoop(trainHead(this, pre.tokens), pre.tokens, 0)]

\* train: the error thrown and the instance after the call
train(this, text) ==
  LET pre == preprocessText(this, text)
  IN IF pre.thrown # NoError
     THEN [thrown |-> pre.thrown, this |-> this]
     ELSE [thrown |-> NoError,
           this |-> trainLoop(trainHead(this, pre.tokens), pre.tokens, 0)]

\* the doubles of selectNextToken: a finite non-negative value, Infinity, NaN
Finite(n) == [class |-> "finite", n |-> n]
Infinity == [class |-> "Infinity", n |-> 0]
NaN == [class |-> "NaN", n |-> 0]

\* Math.pow(prob, 1 / temperature) for a count prob >= 1 and the
\* temperatures 1, 0.5 and 0.0005 (exponents 1, 2 and 2000): 1 to any power
\* is 1, and a count of 2 or more to a power of 1024 or more exceeds the
\* largest double and is Infinity
weight(prob, temperature) ==
  LET exponent == 10000 \div temperature.v
  IN IF prob = 1 THEN Finite(1)
     ELSE IF exponent >= 1024 THEN Infinity
     ELSE Finite(prob ^ exponent)

\* sum + w of two doubles that are not negative
plus(sum, w) ==
  IF sum.class = "NaN" \/ w.class = "NaN" THEN NaN
  ELSE IF sum.class = "Infinity" \/ w.class = "Infinity" THEN Infinity
  ELSE Finite(sum.n + w.n)

\* line 165: the reduce over the entries, from 0; the weights are integers
\* or Infinity, whose sum is the same in every order
RECURSIVE totalWeight(_, _)
totalWeight(entries, temperature) ==
  IF entries = <<>> THEN Finite(0)
  ELSE plus(weight(Head(entries).value, temperature),
            totalWeight(Tail(entries), temperature))

\* line 167: Math.random() * total, a finite value being kept as its
\* numerator over RandomDen; 0 * Infinity is NaN
randomTimes(random, total) ==
  IF total.class = "NaN" THEN NaN
  ELSE IF total.class = "Infinity"
       THEN IF random = 0 THEN NaN ELSE Infinity
  ELSE Finite(random * total.n)

\* rand <= cumulative, rand being a result of randomTimes; a comparison
\* with NaN is false
lessOrEqual(rand, cumulative) ==
  IF rand.class = "NaN" \/ cumulative.class = "NaN" THEN FALSE
  ELSE IF cumulative.class = "Infinity" THEN TRUE
  ELSE IF rand.class = "Infinity" THEN FALSE
  ELSE rand.n <= cumulative.n * RandomDen

\* rand < cumulative
lessThan(rand, cumulative) ==
  IF rand.class = "NaN" \/ cumulative.class = "NaN" THEN FALSE
  ELSE IF rand.class = "Infinity" THEN FALSE
  ELSE IF cumulative.class = "Infinity" THEN TRUE
  ELSE rand.n < cumulative.n * RandomDen

\* lines 168-178: the for loop of selectNextToken, and the last entry when
\* no test rand <= cumulative passed
RECURSIVE selectWalk(_, _, _, _)
selectWalk(entries, temperature, rand, cumulative) ==
  LET next == plus(cumulative, weight(Head(entries).value, temperature))
  IN IF lessOrEqual(rand, next)
     THEN Head(entries).key
     ELSE IF Len(entries) = 1
          THEN Head(entries).key
          ELSE selectWalk(Tail(entries), temperature, rand, next)

\* the walk of selectNextTokenStrict
RECURSIVE selectWalkStrict(_, _, _, _)
selectWalkStrict(entries, temperature, rand, cumulative) ==
  LET next == plus(cumulative, weight(Head(entries).value, temperature))
  IN IF lessThan(rand, next)
     THEN Head(entries).key
     ELSE IF Len(entries) = 1
          THEN Head(entries).key
          ELSE selectWalkStrict(Tail(entries), temperature, rand, next)

\* selectNextToken testing rand < cumulative instead of rand <= cumulative
selectNextTokenStrict(transitions, temperature, random) ==
  selectWalkStrict(transitions, temperature,
                   randomTimes(random, totalWeight(transitions, temperature)),
                   Finite(0))

\* selectNextToken walking the entries from the last one to the first
selectNextTokenReversed(transitions, temperature, random) ==
  selectWalk([i \in 1..Len(transitions) |->
                transitions[Len(transitions) - i + 1]],
             temperature,
             randomTimes(random, totalWeight(transitions, temperature)),
             Finite(0))

\* selectNextToken, for a non-empty transitions map and Math.random() =
\* random / RandomDen
selectNextToken(transitions, temperature, random) ==
  selectWalk(transitions, temperature,
             randomTimes(random, totalWeight(transitions, temperature)),
             Finite(0))

\* the locals of a generate call; iterations and zeroDraws are history:
\* the loop iterations run, and whether every Math.random() so far was 0
Idle ==
  [pc |-> "idle", minLength |-> 0, maxLength |-> 0, temperature |-> Undefined,
   endOnSentence |-> FALSE, startPhrase |-> Undefined, currentGram |-> <<>>,
   generatedTokens |-> <<>>, iterations |-> 0, zeroDraws |-> TRUE]

\* generateBegin validating the options before it looks at the model
generateBeginValidatingFirst(this, startPhraseArg, options, random) ==
  LET startPhrase == Default(startPhraseArg, Null)
      nStart == Len(this.startSequences)
      currentGram ==
        IF startPhrase.type # "null"
        THEN toLowerCase(startPhrase.v)
        ELSE this.startSequences[((random * nStart) \div RandomDen) + 1]
      thrown ==
        IF validateOptions(options) # NoError
        THEN validateOptions(options)
        ELSE IF Len(this.wordTransitions) = 0
        THEN ValidationError("Model must be trained before generating text")
        ELSE IF startPhrase.type # "null" /\ startPhrase.type # "string"
        THEN ValidationError("Start phrase must be a string")
        ELSE IF startPhrase.type # "null"
                /\ ~mapHas(this.wordTransitions, currentGram)
        THEN ValidationError("Start phrase not found in training data")
        ELSE NoError
  IN IF thrown # NoError
     THEN [thrown |-> thrown, locals |-> Idle]
     ELSE [thrown |-> NoError,
           locals |->
             [pc |-> "loop",
              minLength |-> Default(options.minLength, Num(10)).v \div 10000,
              maxLength |-> Default(options.maxLength, Num(50)).v \div 10000,
              temperature |-> Default(options.temperature, Num(1)),
              endOnSentence |-> Default(options.endOnSentence, Bool(TRUE)).v,
              startPhrase |-> startPhrase,
              currentGram |-> currentGram,
              generatedTokens |-> splitSpace(currentGram),
              iterations |-> 0,
              zeroDraws |-> (startPhrase.type # "null" \/ random = 0)]]

\* generate up to line 218: the error thrown, or the locals at the loop
generateBegin(this, startPhraseArg, options, random) ==
  LET startPhrase == Default(startPhraseArg, Null)
      minLength == Default(options.minLength, Num(10))
      maxLength == Default(options.maxLength, Num(50))
      temperature == Default(options.temperature, Num(1))
      endOnSentence == Default(options.endOnSentence, Bool(TRUE))
      nStart == Len(this.startSequences)
      currentGram ==
        IF startPhrase.type # "null"
        THEN toLowerCase(startPhrase.v)
        ELSE this.startSequences[((random * nStart) \div RandomDen) + 1]
      thrown ==
        IF Len(this.wordTransitions) = 0
        THEN ValidationError("Model must be trained before generating text")
        ELSE IF validateOptions(options) # NoError
        THEN validateOptions(options)
        ELSE IF startPhrase.type # "null" /\ startPhrase.type # "string"
        THEN ValidationError("Start phrase must be a string")
        ELSE IF startPhrase.type # "null"
                /\ ~mapHas(this.wordTransitions, currentGram)
        THEN ValidationError("Start phrase not found in training data")
        ELSE NoError
  IN IF thrown # NoError
     THEN [thrown |-> thrown, locals |-> Idle]
     ELSE [thrown |-> NoError,
           locals |->
             [pc |-> "loop",
              minLength |-> minLength.v \div 10000,
              maxLength |-> maxLength.v \div 10000,
              temperature |-> temperature,
              endOnSentence |-> endOnSentence.v,
              startPhrase |-> startPhrase,
              currentGram |-> currentGram,
              generatedTokens |-> splitSpace(currentGram),
              iterations |-> 0,
              zeroDraws |-> (startPhrase.type # "null" \/ random = 0)]]

\* generateBody keeping the key it came with instead of the last order
\* tokens
generateBodyStaleGram(this, g, transitions, random) ==
  LET nextToken == selectNextToken(transitions, g.temperature, random)
      generatedTokens == Append(g.generatedTokens, nextToken)
      stop == g.endOnSentence /\ endsSentence(nextToken)
              /\ Len(generatedTokens) >= g.minLength
  IN [g EXCEPT
        !.generatedTokens = generatedTokens,
        !.iterations = g.iterations + 1,
        !.zeroDraws = g.zeroDraws /\ random = 0,
        !.pc = IF stop THEN "return" ELSE "loop"]

\* generateBody ending on sentence punctuation without looking at minLength
generateBodyIgnoringMinLength(this, g, transitions, random) ==
  LET nextToken == selectNextToken(transitions, g.temperature, random)
      generatedTokens == Append(g.generatedTokens, nextToken)
      stop == g.endOnSentence /\ endsSentence(nextToken)
  IN [g EXCEPT
        !.generatedTokens = generatedTokens,
        !.currentGram = join(sliceLast(generatedTokens, this.order)),
        !.iterations = g.iterations + 1,
        !.zeroDraws = g.zeroDraws /\ random = 0,
        !.pc = IF stop THEN "return" ELSE "loop"]

\* lines 225-238: the loop body once transitions were found
generateBody(this, g, transitions, random) ==
  LET nextToken == selectNextToken(transitions, g.temperature, random)
      generatedTokens == Append(g.generatedTokens, nextToken)
      stop == g.endOnSentence /\ endsSentence(nextToken)
              /\ Len(generatedTokens) >= g.minLength
  IN [g EXCEPT
        !.generatedTokens = generatedTokens,
        !.currentGram = join(sliceLast(generatedTokens, this.order)),
        !.iterations = g.iterations + 1,
        !.zeroDraws = g.zeroDraws /\ random = 0,
        !.pc = IF stop THEN "return" ELSE "loop"]

\* generateLoop creating an empty successor map for a key it does not find
generateLoopCreating(this, g, random) ==
  IF ~(Len(g.generatedTokens) < g.maxLength)
  THEN [this |-> this, locals |-> [g EXCEPT !.pc = "return"]]
  ELSE IF ~mapHas(this.wordTransitions, g.currentGram)
  THEN [this |-> [this EXCEPT !.wordTransitions =
                    mapSet(this.wordTransitions, g.currentGram, <<>>)],
        locals |-> [g EXCEPT !.pc = "return"]]
  ELSE IF mapGet(this.wordTransitions, g.currentGram) = <<>>
  THEN [this |-> this,
        locals |-> [g EXCEPT !.zeroDraws = g.zeroDraws /\ random = 0,
                             !.pc = "throw"]]
  ELSE [this |-> this,
        locals |-> generateBody(this, g,
                     mapGet(this.wordTransitions, g.currentGram), random)]

\* generateLoop testing length <= maxLength instead of length < maxLength
generateLoopOneMore(this, g, random) ==
  IF ~(Len(g.generatedTokens) <= g.maxLength)
  THEN [this |-> this, locals |-> [g EXCEPT !.pc = "return"]]
  ELSE IF ~mapHas(this.wordTransitions, g.currentGram)
  THEN [this |-> this, locals |-> [g EXCEPT !.pc = "return"]]
  ELSE IF mapGet(this.wordTransitions, g.currentGram) = <<>>
  THEN [this |-> this,
        locals |-> [g EXCEPT !.zeroDraws = g.zeroDraws /\ random = 0,
                             !.pc = "throw"]]
  ELSE [this |-> this,
        locals |-> generateBody(this, g,
                     mapGet(this.wordTransitions, g.currentGram), random)]

\* lines 221-239: the while test and one pass of the loop; the instance
\* and the locals after it
generateLoop(this, g, random) ==
  IF ~(Len(g.generatedTokens) < g.maxLength)
  THEN [this |-> this, locals |-> [g EXCEPT !.pc = "return"]]
  ELSE IF ~mapHas(this.wordTransitions, g.currentGram)
  THEN [this |-> this, locals |-> [g EXCEPT !.pc = "return"]]
  ELSE IF mapGet(this.wordTransitions, g.currentGram) = <<>>
  THEN [this |-> this,
        locals |-> [g EXCEPT !.zeroDraws = g.zeroDraws /\ random = 0,
                             !.pc = "throw"]]
  ELSE [this |-> this,
        locals |-> generateBody(this, g,
                     mapGet(this.wordTransitions, g.currentGram), random)]

\* lines 242-244: the only error the loop can throw is the TypeError of
\* line 178, entries[entries.length - 1][0] on an empty successor map
\* ("Cannot read properties of undefined (reading '0')"); the catch block
\* wraps it as 'Error during text generation: ' + error.message
generateCatch ==
  ValidationError("Error during text generation: Cannot read properties of undefined (reading '0')")

\* generateResult returning only the last token generated
generateResultLastToken(g) ==
  Str(g.generatedTokens[Len(g.generatedTokens)])

\* line 241: the string returned
generateResult(g) == Str(join(g.generatedTokens))

RECURSIVE sumCounts(_)
sumCounts(transitions) ==
  IF transitions = <<>> THEN 0
  ELSE Head(transitions).value + sumCounts(Tail(transitions))

RECURSIVE sumAllCounts(_)
sumAllCounts(wordTransitions) ==
  IF wordTransitions = <<>> THEN 0
  ELSE sumCounts(Head(wordTransitions).value)
       + sumAllCounts(Tail(wordTransitions))

RECURSIVE sumSizes(_)
sumSizes(wordTransitions) ==
  IF wordTransitions = <<>> THEN 0
  ELSE Len(Head(wordTransitions).value) + sumSizes(Tail(wordTransitions))

\* getStats adding up the sizes of the successor maps as totalTransitions
getStatsCountingSuccessors(this) ==
  [vocabularySize |-> Len(this.wordTransitions),
   totalTransitions |-> sumSizes(this.wordTransitions),
   startSequences |-> Len(this.startSequences),
   endSequences |-> Len(this.endSequences),
   totalTokens |-> this.totalTokens,
   averageTransitionsPerState |->
     IF Len(this.wordTransitions) > 0
     THEN [num |-> sumSizes(this.wordTransitions),
           den |-> Len(this.wordTransitions)]
     ELSE [num |-> 0, den |-> 1]]

\* getStats; averageTransitionsPerState is the fraction num / den
getStats(this) ==
  [vocabularySize |-> Len(this.wordTransitions),
   totalTransitions |-> sumAllCounts(this.wordTransitions),
   startSequences |-> Len(this.startSequences),
   endSequences |-> Len(this.endSequences),
   totalTokens |-> this.totalTokens,
   averageTransitionsPerState |->
     IF Len(this.wordTransitions) > 0
     THEN [num |-> sumSizes(this.wordTransitions),
           den |-> Len(this.wordTransitions)]
     ELSE [num |-> 0, den |-> 1]]

\* ------------------------------------------------------------ inputs ----
\* arguments of the constructor
OrderArgs == {Num(n) : n \in 0..MaxOrder} \cup {Half(3), Str(<<"a">>)}

\* "A\t a?"
UpperText == <<"A", "\t", " ", "a", "?">>
\* "a a a."
CycleText == <<"a", " ", "a", " ", "a", ".">>

\* arguments of train: the two texts of the source, a text with an
\* upper-case word and a run of whitespace, a text with a cycle, and texts
\* that fail each check of preprocessText
Texts ==
  {Str(ThisIsATest), Str(FoxText), Str(UpperText), Str(CycleText),
   Str(<<>>), Str(<<" ", "\t">>), Str(<<"a">>), Str(<<" ", ".", " ">>),
   Undefined, Null, Num(7)}

\* every string over the alphabet of length at most n
RECURSIVE Strings(_, _)
Strings(alphabet, n) ==
  IF n = 0 THEN {<<>>}
  ELSE Strings(alphabet, n - 1)
       \cup {Append(s, c) : s \in Strings(alphabet, n - 1), c \in alphabet}

\* every short text over letters, whitespace and punctuation
ShortTexts == {Str(s) : s \in Strings({"a", " ", "\t", ".", "?"}, MaxTextLen)}

\* start phrases of generate
StartPhrases ==
  {Null, Num(7),
   Str(<<"a">>), Str(<<"A">>), Str(<<"?">>), Str(<<"i", "s">>),
   Str(<<"a", " ", "a">>), Str(<<"A", " ", "a">>),
   Str(<<"T", "h", "i", "s">>), Str(<<"t", "h", "i", "s">>),
   Str(<<"t", "h", "e", " ", "f", "o", "x">>), Str(<<"f", "o", "x">>)}

\* options objects of generate: every maxLength with the least and the
\* greatest minLength and endOnSentence left to its default, the least and
\* the greatest maxLength without it, the temperature 0.5, the temperature
\* 0.0005 at which the weight of a count of 2 is Infinity, and objects that
\* fail each check of validateOptions
Options ==
  [minLength : {Num(1), Num(MaxGenLen)},
   maxLength : {Num(n) : n \in 1..MaxGenLen},
   temperature : {Undefined},
   endOnSentence : {Undefined}]
  \cup [minLength : {Num(1)},
        maxLength : {Num(1), Num(MaxGenLen)},
        temperature : {Undefined},
        endOnSentence : {Bool(FALSE)}]
  \cup [minLength : {Undefined, Num(0), Half(3), Str(<<"a">>), Num(1)},
        maxLength : {Num(MaxGenLen)},
        temperature : {Half(1)},
        endOnSentence : {Bool(TRUE)}]
  \cup [minLength : {Num(1)},
        maxLength : {Num(MaxGenLen)},
        temperature : {TenThousandths(5)},
        endOnSentence : {Undefined}]
  \cup [minLength : {Num(1)},
        maxLength : {Half(3), Str(<<"a">>)},
        temperature : {Undefined},
        endOnSentence : {Undefined}]
  \cup [minLength : {Num(1)},
        maxLength : {Num(MaxGenLen)},
        temperature : {Num(0), Str(<<"a">>), Num(1)},
        endOnSentence : {Str(<<"a">>)}]

\* the numerators k of the values k / RandomDen of Math.random(); a
\* successor of weight w in a mapping of total weight t is drawn by one of
\* them when RandomDen > t / w, which RandomDen = 7 gives for every mapping
\* that MaxTrains = 2 calls of train on Texts build, at the temperatures 1
\* and 0.5; at 0.0005 the draws 0 and 1 give the two outcomes NaN and Infinity
Randoms == 0..(RandomDen - 1)

\* generate calls Math.random() before its loop only to draw a start key
StartRandoms(startPhrase) ==
  IF Default(startPhrase, Null).type = "null" THEN Randoms ELSE {0}

\* the locals of a train call taken step by step: pc is the line it is at
NotTraining == [pc |-> "idle", text |-> Undefined, tokens |-> <<>>, i |-> 0]

\* ------------------------------------------------------------- state ----
VARIABLES
  llm,        \* the EnhancedLLM instance
  g,          \* the locals of the generate call in progress, Idle if none
  last,       \* the outcome of the last call that ended: the error thrown
              \* and the value returned (for a train that succeeded, its
              \* text); "generating" while a generate call is in progress
  nTrains,    \* history: the train calls that succeeded
  training    \* the locals of a train call whose steps are taken one by
              \* one, NotTraining if none

vars == <<llm, g, last, nTrains, training>>

Outcome(op, thrown, result) ==
  [op |-> op, thrown |-> thrown, result |-> result]

Init ==
  /\ \E order \in OrderArgs :
       /\ validateOrder(order) = NoError
       /\ llm = EnhancedLLM(order)
  /\ g = Idle
  /\ last = Outcome("new", NoError, Undefined)
  /\ nTrains = 0
  /\ training = NotTraining

\* llm.train(text)
Train(text) ==
  LET r == train(llm, text)
  IN /\ g.pc = "idle"
     /\ r.thrown # NoError \/ nTrains < MaxTrains
     /\ llm' = r.this
     /\ last' = Outcome("train", r.thrown,
                        IF r.thrown = NoError THEN text ELSE Undefined)
     /\ nTrains' = IF r.thrown = NoError THEN nTrains + 1 ELSE nTrains
     /\ UNCHANGED <<g, training>>

\* llm.generate(startPhrase, options) up to its loop
GenerateCall(startPhrase, options, random) ==
  LET r == generateBegin(llm, startPhrase, options, random)
  IN /\ g.pc = "idle"
     /\ g' = r.locals
     /\ last' = IF r.thrown # NoError
                THEN Outcome("generate", r.thrown, Undefined)
                ELSE Outcome("generating", NoError, Undefined)
     /\ UNCHANGED <<llm, nTrains, training>>

\* the while test and one pass of the loop of generate
GenerateStep(random) ==
  LET r == generateLoop(llm, g, random)
  IN /\ g.pc = "loop"
     /\ llm' = r.this
     /\ g' = r.locals
     /\ UNCHANGED <<last, nTrains, training>>

\* generate returns its string, or rethrows what the loop threw
GenerateEnd ==
  /\ g.pc \in {"return", "throw"}
  /\ last' = IF g.pc = "return"
             THEN Outcome("generate", NoError, generateResult(g))
             ELSE Outcome("generate", generateCatch, Undefined)
  /\ g' = Idle
  /\ UNCHANGED <<llm, nTrains, training>>

\* llm.getStats()
GetStats ==
  /\ g.pc = "idle"
  /\ last' = Outcome("getStats", NoError, getStats(llm))
  /\ UNCHANGED <<llm, g, nTrains, training>>

Next ==
  \/ \E text \in Texts : Train(text)
  \/ \E startPhrase \in StartPhrases, options \in Options :
       \E random \in StartRandoms(startPhrase) :
         GenerateCall(startPhrase, options, random)
  \/ \E random \in Randoms : GenerateStep(random)
  \/ GenerateEnd
  \/ GetStats

Spec == Init /\ [][Next]_vars

\* ------------------------------------- train interleaved with readers ----
\* arguments of the calls that are interleaved
InterleavedTexts == {Str(UpperText), Str(CycleText), Str(<<"a">>)}
InterleavedStartPhrases == {Null, Str(<<"a">>)}
InterleavedOptions ==
  [minLength : {Num(1)}, maxLength : {Num(MaxGenLen)},
   temperature : {Undefined}, endOnSentence : {Undefined}]

\* llm.train(text) up to line 131: preprocessText throws or gives the tokens
TrainCall(text) ==
  LET pre == preprocessText(llm, text)
  IN /\ training.pc = "idle"
     /\ pre.thrown # NoError \/ nTrains < MaxTrains
     /\ training' = IF pre.thrown # NoError
                    THEN NotTraining
                    ELSE [pc |-> "count", text |-> text,
                          tokens |-> pre.tokens, i |-> 0]
     /\ last' = IF pre.thrown # NoError
                THEN Outcome("train", pre.thrown, Undefined)
                ELSE last
     /\ UNCHANGED <<llm, g, nTrains>>

\* line 132: this.totalTokens += tokens.length
TrainCount ==
  /\ training.pc = "count"
  /\ llm' = [llm EXCEPT !.totalTokens = llm.totalTokens + Len(training.tokens)]
  /\ training' = [training EXCEPT !.pc = "start"]
  /\ UNCHANGED <<g, last, nTrains>>

\* line 135: this.startSequences.add(this.getNGram(tokens, 0))
TrainStart ==
  /\ training.pc = "start"
  /\ llm' = [llm EXCEPT !.startSequences =
                setAdd(llm.startSequences, getNGram(llm, training.tokens, 0))]
  /\ training' = [training EXCEPT !.pc = "loop"]
  /\ UNCHANGED <<g, last, nTrains>>

\* lines 137-153: the test of the for loop and its body for one index
TrainIndex ==
  /\ training.pc = "loop"
  /\ training.i < Len(training.tokens) - llm.order
  /\ llm' = trainStep(llm, training.tokens, training.i)
  /\ training' = [training EXCEPT !.i = training.i + 1]
  /\ UNCHANGED <<g, last, nTrains>>

\* line 154: the for loop is over and train returns
TrainReturn ==
  /\ training.pc = "loop"
  /\ ~(training.i < Len(training.tokens) - llm.order)
  /\ training' = NotTraining
  /\ last' = Outcome("train", NoError, training.text)
  /\ nTrains' = nTrains + 1
  /\ UNCHANGED <<llm, g>>

\* the steps of one train call at a time, in program order, with generate
\* and getStats calls on the same instance taken between them
NextInterleaved ==
  \/ \E text \in InterleavedTexts : TrainCall(text)
  \/ TrainCount
  \/ TrainStart
  \/ TrainIndex
  \/ TrainReturn
  \/ \E startPhrase \in InterleavedStartPhrases, options \in InterleavedOptions :
       \E random \in StartRandoms(startPhrase) :
         GenerateCall(startPhrase, options, random)
  \/ \E random \in Randoms : GenerateStep(random)
  \/ GenerateEnd
  \/ GetStats

SpecInterleaved == Init /\ [][NextInterleaved]_vars

\* ------------------------------------------------------------ claims ----
\* a generate call is about to return generateResult(g)
Returning == g.pc = "return"

\* the number of tokens of a returned string
tokenCount(str) == Len(splitSpace(str.v))

\* the step is (part of) a generate call
GenerateStepTaken ==
  g.pc # "idle" \/ g'.pc # "idle" \/ last'.op = "generate"

\* the step is a train call
TrainStepTaken == g.pc = "idle" /\ g'.pc = "idle" /\ last'.op = "train"

\* the tokens of a string counted without the replace / split chain: the
\* punctuation marks, and the maximal runs of other non-blank characters
wordCount(s) ==
  Cardinality({i \in 1..Len(s) : IsPunct(s[i])})
  + Cardinality({i \in 1..Len(s) :
                   /\ ~IsPunct(s[i]) /\ ~IsSpace(s[i])
                   /\ (i = 1 \/ IsPunct(s[i - 1]) \/ IsSpace(s[i - 1]))})

\* C1: a string returned by generate never has more than maxLength tokens,
\* also when order > maxLength.
C1_AtMostMaxLength ==
  Returning => tokenCount(generateResult(g)) <= g.maxLength

\* the text is one that train must reject: not a string, blank, or of
\* fewer than order + 1 tokens
Rejected(this, text) ==
  \/ text.type # "string"
  \/ \A i \in 1..Len(text.v) : IsSpace(text.v[i])
  \/ wordCount(text.v) < this.order + 1

\* C2: in every model state (each one is the state right after the
\* constructor or a train call) train fails with ValidationError on every
\* text that is not a string, is blank or has fewer than order + 1 tokens,
\* and a train call that fails leaves the model exactly as it was.
C2_FailedTrainChangesNothing ==
  /\ [](last.op \in {"new", "train"} =>
          \A text \in Texts \cup ShortTexts :
            Rejected(llm, text) =>
              /\ train(llm, text).thrown.name = "ValidationError"
              /\ train(llm, text).this = llm)
  /\ [][TrainStepTaken /\ last'.thrown # NoError =>
          /\ last'.thrown.name = "ValidationError"
          /\ llm' = llm]_vars

C2_Witness ==
  /\ last.op = "train"
  /\ last.thrown.message = atLeastMessage[llm.order + 1]
  /\ llm.totalTokens > 0
  /\ nTrains = 1

\* the second model has the keys, start keys and end keys of the first,
\* with every count and the token total doubled
Doubled(once, twice) ==
  /\ Len(twice.wordTransitions) = Len(once.wordTransitions)
  /\ \A i \in 1..Len(once.wordTransitions) :
       LET a == once.wordTransitions[i]
           b == twice.wordTransitions[i]
       IN /\ b.key = a.key
          /\ Len(b.value) = Len(a.value)
          /\ \A j \in 1..Len(a.value) :
               /\ b.value[j].key = a.value[j].key
               /\ b.value[j].value = 2 * a.value[j].value
  /\ twice.startSequences = once.startSequences
  /\ twice.endSequences = once.endSequences
  /\ twice.totalTokens = 2 * once.totalTokens
  /\ twice.order = once.order

\* C3: training a fresh model twice on the same accepted text gives the
\* keys, start keys and end keys of training once, with every count and
\* totalTokens doubled.
C3_TrainTwiceDoubles ==
  [][(/\ TrainStepTaken
      /\ nTrains = 1 /\ nTrains' = 2
      /\ last.op = "train" /\ last.thrown = NoError
      /\ last'.result = last.result)
     => Doubled(llm, llm')]_vars

C3_Witness ==
  /\ nTrains = 2
  /\ last.op = "train" /\ last.thrown = NoError
  /\ llm = train(train(EnhancedLLM(Num(llm.order)), last.result).this,
                 last.result).this
  /\ \E i \in 1..Len(llm.wordTransitions) :
       \E j \in 1..Len(llm.wordTransitions[i].value) :
         llm.wordTransitions[i].value[j].value = 4

\* the generate call of the round-trip property
C4_StartPhrase == Str(<<"T", "h", "i", "s">>)
C4_Options ==
  [minLength |-> Num(1), maxLength |-> Num(50), temperature |-> Undefined,
   endOnSentence |-> Bool(FALSE)]

\* C4: with order 1, after train("This is a test."), generate("This",
\* {minLength: 1, maxLength: 50, endOnSentence: false}) returns a string
\* whose first token is "This", whatever the random draws.
C4_OutputStartsWithThis ==
  (/\ llm.order = 1 /\ nTrains = 1
   /\ last.op = "train" /\ last.thrown = NoError
   /\ last.result = Str(ThisIsATest))
  => \A random \in Randoms :
       LET r == generateBegin(llm, C4_StartPhrase, C4_Options, random)
       IN /\ r.thrown = NoError
          /\ Head(r.locals.generatedTokens) = <<"T", "h", "i", "s">>

\* the model of order 2 right after its first train call, on the fox text
C5_Scenario ==
  /\ llm.order = 2 /\ nTrains = 1
  /\ last.op = "train" /\ last.thrown = NoError
  /\ last.result = Str(FoxText)

\* C5 as claimed: in the scenario startSequences and endSequences both
\* have size 3.
C5_ThreeStartsThreeEnds ==
  C5_Scenario =>
    /\ getStats(llm).startSequences = 3
    /\ getStats(llm).endSequences = 3

\* C5, amended: in the scenario startSequences has size 1, its element
\* being the first two tokens of the text, and endSequences has size 3.
C5_OneStartThreeEnds ==
  C5_Scenario =>
    /\ getStats(llm).startSequences = 1
    /\ llm.startSequences[1] = <<"T", "h", "e", " ", "q", "u", "i", "c", "k">>
    /\ getStats(llm).endSequences = 3

C5_Witness == C5_Scenario /\ llm.totalTokens = 23

\* C6: a string returned by generate never has fewer than minLength
\* tokens.
C6_AtLeastMinLength ==
  Returning => tokenCount(generateResult(g)) >= g.minLength

\* C7: no step of a generate call, returning or failing, changes order,
\* wordTransitions, startSequences, endSequences or totalTokens.
C7_GenerateReadsOnly ==
  [][GenerateStepTaken => llm' = llm]_vars

C7_Witness ==
  /\ last.op = "generate" /\ last.thrown = NoError
  /\ tokenCount(last.result) >= llm.order + 2
  /\ nTrains = 2

\* the second model has everything the first has: the same order, no
\* smaller token total, every key, start key and end key, and no smaller
\* count
Grows(old, new) ==
  /\ new.order = old.order
  /\ new.totalTokens >= old.totalTokens
  /\ setElems(old.startSequences) \subseteq setElems(new.startSequences)
  /\ setElems(old.endSequences) \subseteq setElems(new.endSequences)
  /\ \A i \in 1..Len(old.wordTransitions) :
       LET e == old.wordTransitions[i]
       IN /\ mapHas(new.wordTransitions, e.key)
          /\ \A j \in 1..Len(e.value) :
               LET successors == mapGet(new.wordTransitions, e.key)
               IN /\ mapHas(successors, e.value[j].key)
                  /\ mapGet(successors, e.value[j].key) >= e.value[j].value

\* C8: over any sequence of train, generate and getStats calls the model
\* only grows and order keeps its value: every step leaves the model as
\* it is or grows it.
C8_ModelOnlyGrows ==
  [][llm' = llm \/ Grows(llm, llm')]_vars

C8_Witness ==
  /\ nTrains = 2
  /\ last.op = "generate" /\ last.thrown = NoError
  /\ Len(llm.startSequences) = 2
  /\ \E i \in 1..Len(llm.wordTransitions) :
       \E j \in 1..Len(llm.wordTransitions[i].value) :
         llm.wordTransitions[i].value[j].value >= 2

\* the iterations of a generate call are within the bound and each one
\* appended one token to the order tokens of the start key
IterationsBounded(this, call) ==
  /\ call.iterations <= Max(0, call.maxLength - this.order)
  /\ Len(call.generatedTokens) = this.order + call.iterations

\* C9: the loop of generate runs at most max(0, maxLength - order) times
\* and every pass appends exactly one token.
C9_LoopBounded ==
  g.pc # "idle" => IterationsBounded(llm, g)

C9_Witness ==
  /\ Returning
  /\ g.iterations = g.maxLength - llm.order
  /\ g.iterations >= 2
  /\ ~endsSentence(g.generatedTokens[Len(g.generatedTokens)])
  /\ g.generatedTokens[1] = g.generatedTokens[2]

\* every token the call appended is the first successor, in insertion
\* order, of the key before it, and a start key that was drawn is the
\* first start key
FirstSuccessors(this, call) ==
  /\ call.startPhrase.type = "null" =>
       join(SubSeq(call.generatedTokens, 1, this.order)) = this.startSequences[1]
  /\ \A j \in (this.order + 1)..Len(call.generatedTokens) :
       LET key == join(SubSeq(call.generatedTokens, j - this.order, j - 1))
       IN /\ mapHas(this.wordTransitions, key)
          /\ call.generatedTokens[j] = mapGet(this.wordTransitions, key)[1].key

\* C10: when every random draw is 0, generate appends at each step the
\* first-inserted successor of the current key, so its output is fixed by
\* the model and the arguments.
C10_ZeroDrawsTakeFirst ==
  (g.pc # "idle" /\ g.zeroDraws) => FirstSuccessors(llm, g)

\* what a call whose draws were all 0 appends: the first successor of
\* the key when the total weight of its successors is finite, and the last
\* one, by line 178, when the total is Infinity and rand is NaN
ZeroDrawsTakeFirstOrLast ==
  (g.pc # "idle" /\ g.zeroDraws) =>
    /\ g.startPhrase.type = "null" =>
         join(SubSeq(g.generatedTokens, 1, llm.order)) = llm.startSequences[1]
    /\ \A j \in (llm.order + 1)..Len(g.generatedTokens) :
         LET key == join(SubSeq(g.generatedTokens, j - llm.order, j - 1))
             transitions == mapGet(llm.wordTransitions, key)
         IN /\ mapHas(llm.wordTransitions, key)
            /\ g.generatedTokens[j]
                 = IF totalWeight(transitions, g.temperature).class = "finite"
                   THEN transitions[1].key
                   ELSE transitions[Len(transitions)].key

\* a call whose draws were all 0 appended a successor that is not the first
ZeroDrawTookLast ==
  /\ Returning /\ g.zeroDraws
  /\ g.iterations >= 1
  /\ ~FirstSuccessors(llm, g)

\* the step is a generate call that got as far as its preconditions
GenerateCallTaken ==
  g.pc = "idle" /\ last'.op \in {"generate", "generating"}

\* C11: a model has no transition key exactly when no train call has
\* succeeded, and on such a model every generate call, whatever its start
\* phrase and its options, valid or not, fails with ValidationError "Model
\* must be trained before generating text".
C11_UntrainedGenerateFails ==
  /\ [](Len(llm.wordTransitions) = 0 <=> nTrains = 0)
  /\ [](Len(llm.wordTransitions) = 0 =>
          \A startPhrase \in StartPhrases \cup {Undefined}, options \in Options :
            \A random \in Randoms :
              generateBegin(llm, startPhrase, options, random).thrown
                = ValidationError("Model must be trained before generating text"))
  /\ [][(GenerateCallTaken /\ Len(llm.wordTransitions) = 0) =>
          last'.thrown
            = ValidationError("Model must be trained before generating text")]_vars

C11_Witness ==
  /\ nTrains = 0
  /\ last.op = "generate"
  /\ last.thrown.message = "Model must be trained before generating text"
  /\ llm.order = 2

\* C12: every string generate returns has at least order tokens, none of
\* them empty, and begins with the start key, a key of the model; so it
\* is never the empty string, whether the key was given or drawn.
C12_AtLeastOrderTokens ==
  Returning =>
    LET out == splitSpace(generateResult(g).v)
    IN /\ generateResult(g).v # <<>>
       /\ Len(out) >= llm.order
       /\ \A i \in 1..Len(out) : out[i] # <<>>
       /\ mapHas(llm.wordTransitions, join(SubSeq(out, 1, llm.order)))
       /\ g.startPhrase.type = "null" =>
            setHas(llm.startSequences, join(SubSeq(out, 1, llm.order)))

C12_Witness ==
  /\ Returning
  /\ g.startPhrase.type = "null"
  /\ Len(llm.startSequences) = 2
  /\ llm.order = 2
  /\ tokenCount(generateResult(g)) = 2
  /\ g.maxLength = 1

\* the models that whole train calls can produce
RECURSIVE TrainedModels(_)
TrainedModels(n) ==
  IF n = 0 THEN {EnhancedLLM(Num(order)) : order \in 1..MaxOrder}
  ELSE LET before == TrainedModels(n - 1)
       IN before \cup {train(m, text).this : m \in before, text \in Texts}

SequentialModels == TrainedModels(MaxTrains)

\* C13: with the steps of a train call interleaved with generate and
\* getStats calls on the same instance, a reader only sees what whole
\* operations in some order produce: every getStats result is the
\* statistics of a model built by whole train calls, and generate finds a
\* successor for its start key, so it never returns the bare start key
\* while shorter than maxLength.
C13_ReadersSeeSequentialStates ==
  /\ last.op = "getStats" =>
       \E m \in SequentialModels :
         m.order = llm.order /\ getStats(m) = last.result
  /\ (Returning /\ Len(g.generatedTokens) < g.maxLength) => g.iterations > 0

\* the string with each of A-Z replaced by its lower-case letter
lowercase(s) ==
  [i \in 1..Len(s) |->
     IF \E k \in 1..Len(UpperChars) : UpperChars[k] = s[i]
     THEN LowerChars[CHOOSE k \in 1..Len(UpperChars) : UpperChars[k] = s[i]]
     ELSE s[i]]

hasUpperCase(s) ==
  \E i \in 1..Len(s) : \E k \in 1..Len(UpperChars) : UpperChars[k] = s[i]

\* C14: on a trained model and with valid options, generate with a string
\* start phrase S goes on exactly when lowercase(S) is a key, its output
\* then beginning with the tokens of lowercase(S), and fails otherwise with
\* "Start phrase not found in training data"; a call with a string start
\* phrase never starts from a key with an upper-case letter and never ends
\* in an error once it has started.
C14_StartPhraseLowercased ==
  /\ (g.pc = "idle" /\ Len(llm.wordTransitions) > 0) =>
       \A S \in StartPhrases, options \in Options :
         (S.type = "string" /\ validateOptions(options) = NoError) =>
           LET r == generateBegin(llm, S, options, 0)
           IN IF mapHas(llm.wordTransitions, lowercase(S.v))
              THEN /\ r.thrown = NoError
                   /\ r.locals.generatedTokens = splitSpace(lowercase(S.v))
                   /\ Len(r.locals.generatedTokens) = llm.order
              ELSE r.thrown =
                     ValidationError("Start phrase not found in training data")
  /\ (g.pc # "idle" /\ g.startPhrase.type = "string") =>
       /\ g.pc # "throw"
       /\ SubSeq(g.generatedTokens, 1, llm.order)
            = splitSpace(lowercase(g.startPhrase.v))
       /\ ~hasUpperCase(join(SubSeq(g.generatedTokens, 1, llm.order)))

C14_Witness ==
  /\ Returning
  /\ g.startPhrase = Str(<<"A", " ", "a">>)
  /\ mapHas(llm.wordTransitions, <<"A", " ", "a">>)
  /\ g.iterations >= 1
  /\ SubSeq(g.generatedTokens, 1, 2) = << <<"a">>, <<"a">> >>

\* the last order tokens generated are not a key of the model
DeadEnd ==
  ~mapHas(llm.wordTransitions,
          join(SubSeq(g.generatedTokens,
                      Max(1, Len(g.generatedTokens) - llm.order + 1),
                      Len(g.generatedTokens))))

\* token j ends in '.', '!' or '?' and the length with it reaches minLength
SentenceStop(j) ==
  /\ g.generatedTokens[j] # <<>>
  /\ g.generatedTokens[j][Len(g.generatedTokens[j])] \in {".", "!", "?"}
  /\ j >= g.minLength

\* C15: generate returns fewer than maxLength tokens only at a dead end or,
\* with endOnSentence, on a last token that ends in sentence punctuation
\* with the length at least minLength; with endOnSentence no appended
\* token before the last is such a token; without endOnSentence it stops
\* short of maxLength only at a dead end.
C15_StoppingRule ==
  /\ (Returning /\ Len(g.generatedTokens) < g.maxLength) =>
       \/ DeadEnd
       \/ g.endOnSentence /\ SentenceStop(Len(g.generatedTokens))
  /\ (g.pc # "idle" /\ g.endOnSentence) =>
       \A j \in (llm.order + 1)..(Len(g.generatedTokens) - 1) :
         ~SentenceStop(j)
  /\ (Returning /\ ~g.endOnSentence
        /\ Len(g.generatedTokens) < g.maxLength) => DeadEnd

C15_Witness ==
  /\ Returning
  /\ Len(g.generatedTokens) < g.maxLength
  /\ ~DeadEnd
  /\ g.endOnSentence
  /\ g.iterations = 1

\* the sum of the first i counts of a successor mapping
RECURSIVE runningWeight(_, _)
runningWeight(mapping, i) ==
  IF i = 0 THEN 0 ELSE runningWeight(mapping, i - 1) + mapping[i].value

\* the first token, in enumeration order, whose running weight reaches the
\* draw r = (random / RandomDen) * total
firstReaching(mapping, random) ==
  LET total == runningWeight(mapping, Len(mapping))
      reaches(i) == runningWeight(mapping, i) * RandomDen >= random * total
  IN mapping[CHOOSE i \in 1..Len(mapping) :
               reaches(i) /\ \A j \in 1..(i - 1) : ~reaches(j)].key

\* successor mappings: up to three tokens in every order, with every count
\* that MaxTrains train calls can store for a pair seen at most twice in a
\* text
RECURSIVE Mappings(_)
Mappings(n) ==
  IF n = 0 THEN {<<>>}
  ELSE Mappings(n - 1)
       \cup {Append(m, [key |-> <<c>>, value |-> count]) :
               m \in {m \in Mappings(n - 1) : Len(m) = n - 1},
               c \in {"a", ".", "?"}, count \in 1..(2 * MaxTrains)}

SamplerMappings ==
  {m \in Mappings(3) :
     m # <<>> /\ \A i, j \in 1..Len(m) : m[i].key = m[j].key => i = j}

samplesFirstReaching(mapping) ==
  \A random \in Randoms :
    LET token == selectNextToken(mapping, Num(1), random)
    IN /\ token = firstReaching(mapping, random)
       /\ mapHas(mapping, token)

SamplerOnMappings == \A mapping \in SamplerMappings : samplesFirstReaching(mapping)

\* the sampler is right on every successor mapping a model holds
SamplerOnModel(this) ==
  \A i \in 1..Len(this.wordTransitions) :
    samplesFirstReaching(this.wordTransitions[i].value)

\* C16: at temperature 1, for every non-empty successor mapping (the ones
\* of SamplerMappings and every one a reachable model holds) and every
\* draw, selectNextToken returns the first token in enumeration order
\* whose running count reaches the draw, a key of the mapping; and every
\* token a generate step appends at temperature 1 is that token for some
\* draw.  A model holds the mappings of the initial model and those of
\* every model a step changes it to.
C16_SamplerTakesFirstReaching ==
  /\ [](SamplerOnMappings)
  /\ SamplerOnModel(llm)
  /\ [][llm' # llm => SamplerOnModel(llm')]_vars
  /\ [][(g.pc = "loop" /\ g'.iterations = g.iterations + 1
           /\ g.temperature = Num(1)) =>
          \E random \in Randoms :
            g'.generatedTokens =
              Append(g.generatedTokens,
                     firstReaching(mapGet(llm.wordTransitions, g.currentGram),
                                   random))]_vars

C16_Witness ==
  /\ g.pc # "idle" /\ g.temperature = Num(1)
  /\ g.iterations = 1
  /\ LET mapping == mapGet(llm.wordTransitions,
                           join(SubSeq(g.generatedTokens, 1, llm.order)))
     IN /\ Len(mapping) = 3
        /\ mapping[1].value # mapping[2].value
        /\ g.generatedTokens[llm.order + 1] = mapping[3].key

\* the count a model stores for a key and a successor, 0 if it has none
countOf(this, key, token) ==
  IF mapHas(this.wordTransitions, key)
     /\ mapHas(mapGet(this.wordTransitions, key), token)
  THEN mapGet(mapGet(this.wordTransitions, key), token)
  ELSE 0

\* the pairs of a key and a successor that a model holds
pairsOf(this) ==
  UNION {{<<this.wordTransitions[i].key, this.wordTransitions[i].value[j].key>> :
            j \in 1..Len(this.wordTransitions[i].value)} :
         i \in 1..Len(this.wordTransitions)}

\* the transitions of a token sequence: its positions, each with the key
\* that starts there and the token that follows the key
observedTransitions(tokens, order) ==
  LET sequence == tokens
  IN {<<i, join(SubSeq(sequence, i, i + order - 1)), sequence[i + order]>> :
        i \in 1..(Len(sequence) - order)}

\* every key has a successor and every count is an integer >= 1
CountsPositive(this) ==
  \A i \in 1..Len(this.wordTransitions) :
    /\ Len(this.wordTransitions[i].value) >= 1
    /\ \A j \in 1..Len(this.wordTransitions[i].value) :
         /\ this.wordTransitions[i].value[j].value \in Nat
         /\ this.wordTransitions[i].value[j].value >= 1

\* the new model counts, on top of the old one, exactly the transitions of
\* the tokens
CountsObserved(old, new, tokens) ==
  LET observed == observedTransitions(tokens, old.order)
  IN \A pair \in pairsOf(old) \cup pairsOf(new)
                   \cup {<<o[2], o[3]>> : o \in observed} :
       countOf(new, pair[1], pair[2])
         = countOf(old, pair[1], pair[2])
           + Cardinality({o \in observed : o[2] = pair[1] /\ o[3] = pair[2]})

\* C17: in every reachable state every key of wordTransitions has at least
\* one successor and every count is an integer >= 1; a model starts with
\* no key, a train call that succeeds adds to each count the number of
\* times its text shows that transition, and no other step changes
\* wordTransitions: a key or a successor is there exactly when a train
\* call that succeeded saw it.
C17_CountsAreObservations ==
  /\ [](CountsPositive(llm))
  /\ [](nTrains = 0 => llm.wordTransitions = <<>>)
  /\ [][\/ llm'.wordTransitions = llm.wordTransitions
        \/ /\ TrainStepTaken /\ last'.thrown = NoError
           /\ CountsObserved(llm, llm', tokenize(last'.result.v))]_vars

C17_Witness ==
  /\ last.op = "train" /\ last.thrown = NoError
  /\ nTrains = 2
  /\ \E i \in 1..Len(llm.wordTransitions) :
       /\ Len(llm.wordTransitions[i].value) = 3
       /\ \E j \in 1..3 : llm.wordTransitions[i].value[j].value = 2

\* the key has a successor that ends in '.', '!' or '?'
hasSentenceEnd(this, key) ==
  \E j \in 1..Len(mapGet(this.wordTransitions, key)) :
    LET token == mapGet(this.wordTransitions, key)[j].key
    IN token # <<>> /\ token[Len(token)] \in {".", "!", "?"}

\* C18: in every reachable state every start key and every end key is a
\* key of wordTransitions and every end key has a successor that ends in
\* sentence punctuation; once a train call has succeeded there is a key and
\* a start key, and a generate call that drew its start key appends at
\* least one token when maxLength allows it.
C18_StartAndEndKeysAreKeys ==
  /\ \A i \in 1..Len(llm.startSequences) :
       /\ mapHas(llm.wordTransitions, llm.startSequences[i])
       /\ mapGet(llm.wordTransitions, llm.startSequences[i]) # <<>>
  /\ \A i \in 1..Len(llm.endSequences) :
       /\ mapHas(llm.wordTransitions, llm.endSequences[i])
       /\ hasSentenceEnd(llm, llm.endSequences[i])
  /\ nTrains >= 1 =>
       Len(llm.wordTransitions) >= 1 /\ Len(llm.startSequences) >= 1
  /\ (Returning /\ g.startPhrase.type = "null" /\ llm.order < g.maxLength) =>
       g.iterations >= 1

C18_Witness ==
  /\ Returning /\ g.startPhrase.type = "null"
  /\ g.iterations >= 1
  /\ nTrains = 2
  /\ Len(llm.startSequences) = 2
  /\ Len(llm.endSequences) >= 2
  /\ g.generatedTokens[1] = llm.startSequences[2]

\* C19: every token generate has appended is a successor seen in training:
\* the order tokens before it are a key of wordTransitions whose successor
\* map holds the token with a count >= 1; this holds all through a call
\* and so for the string it returns.
C19_AppendedTokensWereObserved ==
  g.pc # "idle" =>
    \A j \in (llm.order + 1)..Len(g.generatedTokens) :
      countOf(llm, join(SubSeq(g.generatedTokens, j - llm.order, j - 1)),
              g.generatedTokens[j]) >= 1

C19_Witness ==
  /\ Returning
  /\ g.iterations = 2
  /\ ~g.zeroDraws
  /\ llm.order = 1
  /\ splitSpace(generateResult(g).v) = g.generatedTokens

\* the statistics of a model that has not been trained
ZeroStats ==
  [vocabularySize |-> 0, totalTransitions |-> 0, startSequences |-> 0,
   endSequences |-> 0, totalTokens |-> 0,
   averageTransitionsPerState |-> [num |-> 0, den |-> 1]]

\* C20: in every reachable state getStats().totalTransitions equals
\* totalTokens minus order times the number of train calls that succeeded,
\* and so does every getStats result returned; a train call that succeeds
\* on a text of n tokens adds n to totalTokens and n - order to
\* totalTransitions; with no successful train every field of getStats is 0.
C20_TransitionsAreTokensMinusOrder ==
  /\ [](getStats(llm).totalTransitions
          = llm.totalTokens - llm.order * nTrains)
  /\ [](last.op = "getStats" =>
          /\ last.result.totalTransitions
               = last.result.totalTokens - llm.order * nTrains
          /\ last.result.totalTokens = llm.totalTokens)
  /\ [](nTrains = 0 => getStats(llm) = ZeroStats)
  /\ [][(TrainStepTaken /\ last'.thrown = NoError) =>
          LET n == wordCount(last'.result.v)
          IN /\ llm'.totalTokens = llm.totalTokens + n
             /\ getStats(llm').totalTransitions
                  = getStats(llm).totalTransitions + n - llm.order]_vars

C20_Witness ==
  /\ last.op = "getStats"
  /\ nTrains = 2
  /\ llm.order = 2
  /\ last.result.totalTransitions = last.result.totalTokens - 4
  /\ last.result.totalTransitions > last.result.vocabularySize
=============================================================================
